---- MODULE Spec2Model ----
(***************************************************************************)
(* Fiber-based file copy (msUsingFibers.cpp).  One thread, three fibers:   *)
(* the primary fiber (_tmain), the read fiber (ReadFiberFunc) and the      *)
(* write fiber (WriteFiberFunc).  The fibers share g_lpBuffer and          *)
(* g_dwBytesRead and hand control to each other with SwitchToFiber.        *)
(***************************************************************************)
EXTENDS Integers, Sequences, FiniteSets, TLC

\* ---------------------------------------------------------------- bounds
\* The buffer capacity, scaled down from 32768 so that sources shorter
\* than, equal to and longer than several buffers are enumerable.
BUFFER_SIZE == 2
\* Longest source file enumerated.
MaxSrcLen == 4
\* Number of values of a DWORD byte counter, scaled down from 2^32 so that
\* a source long enough to wrap the counters is enumerable.
DWORD_MOD == 3

\* ------------------------------------------------------ program constants
RTN_OK == 0
RTN_ERROR == 13
FIBER_COUNT == 3
PRIMARY_FIBER == 0
READ_FIBER == 1
WRITE_FIBER == 2
ERROR_SUCCESS == 0

\* ------------------------------------------------------------ environment
\* Byte values of the files and the buffer: two values are enough to tell a
\* lost, repeated or misplaced byte from the right one.
Bytes == {0, 1}
\* Contents HeapAlloc(.., 0, ..) may hand back: the memory is not zeroed.
HeapGarbage == {0, 2}
\* Last-error values left in the thread by earlier calls (stale values).
StaleErrors == {ERROR_SUCCESS, 183}
\* Codes a failing ReadFile / WriteFile / fiber creation sets.
ReadErrors == {30}
WriteErrors == {112}
CreateErrors == {8}

\* Fiber addresses.  NullFiber is the NULL pointer of the zeroed global.
NullFiber == "NULL"
PrimaryAddr == "fiber_primary"
ReadAddr == "fiber_read"
WriteAddr == "fiber_write"
\* What `current` holds once a fiber function has returned: the thread has
\* exited and no fiber executes any more.
ThreadExited == "thread_exited"

\* The lpParameter of a fiber: NULL, or the address of fs[i].
NullData == <<>>
AddrOf(i) == <<i>>

VARIABLES
    mainPc,         \* position of _tmain
    readPc,         \* position of ReadFiberFunc
    writePc,        \* position of WriteFiberFunc
    current,        \* address of the fiber that is executing
    g_lpFiber,      \* fiber-index -> fiber address
    fs,             \* fiber-index -> FIBERDATASTRUCT
    g_lpBuffer,     \* the shared buffer, BUFFER_SIZE bytes
    g_dwBytesRead,  \* valid bytes in the buffer
    lastError,      \* the thread's last-error value (GetLastError)
    source,         \* contents of the source file
    srcPos,         \* file pointer of the source handle
    dest,           \* contents of the destination file
    xfer,           \* history: SwitchToFiber calls, <<from, to>>
    ioLog,          \* history: ReadFile / WriteFile calls and their outcome
    out,            \* history: lines printed by DisplayFiberInfo
    report,         \* what _tmain printed on resume (<<>> before that)
    lpParameter     \* fiber-index -> the lpParameter the fiber was created with

vars == <<mainPc, readPc, writePc, current, g_lpFiber, fs, g_lpBuffer,
          g_dwBytesRead, lastError, source, srcPos, dest, xfer, ioLog,
          out, report, lpParameter>>

files == <<source, srcPos, dest>>
shared == <<g_lpBuffer, g_dwBytesRead>>

\* ---------------------------------------------------------------- helpers
FIBERDATASTRUCT ==
    [dwParameter : HeapGarbage,
     dwFiberResultCode : HeapGarbage,
     dwBytesProcessed : HeapGarbage]

SeqsUpTo(S, n) == UNION {[1..k -> S] : k \in 0..n}

Min(a, b) == IF a < b THEN a ELSE b

DwordAdd(a, b) == (a + b) % DWORD_MOD

\* SwitchToFiber(target): the caller is suspended where it stands and the
\* target resumes where it last stood (or at its entry point).
SwitchToFiber(target) ==
    /\ current' = target
    /\ xfer' = Append(xfer, <<current, target>>)

\* DisplayFiberInfo: the line printed for the executing fiber.
FiberName(lpCurrentFiber) ==
    IF lpCurrentFiber = g_lpFiber[READ_FIBER]
    THEN "Read fiber entered"
    ELSE IF lpCurrentFiber = g_lpFiber[WRITE_FIBER]
         THEN "Primary fiber entered"
         ELSE "Unknown fiber entered"

DisplayFiberInfo(fds) ==
    out' = Append(out, [line |-> FiberName(current),
                        dwParameter |-> fds.dwParameter,
                        fiber |-> current])

\* ------------------------------------------------------------------- Init
Init ==
    /\ mainPc = "convert"
    /\ readPc = "r_entry"
    /\ writePc = "w_entry"
    /\ current = PrimaryAddr
    /\ g_lpFiber = [i \in 0..(FIBER_COUNT - 1) |-> NullFiber]
    \* HeapAlloc without HEAP_ZERO_MEMORY: the result code and the byte count
    \* of both workers start with whatever the heap held.  The fields that
    \* _tmain assigns before any read of them (every dwParameter, the primary
    \* fiber's result code) and the primary fiber's byte count, which is
    \* never used, are dead on entry: one value stands for all of them.
    /\ fs \in [0..(FIBER_COUNT - 1) -> FIBERDATASTRUCT]
    /\ \A i \in 0..(FIBER_COUNT - 1) : fs[i].dwParameter = 0
    /\ fs[PRIMARY_FIBER].dwFiberResultCode = 0
    /\ fs[PRIMARY_FIBER].dwBytesProcessed = 0
    /\ \E b \in Bytes : g_lpBuffer = [i \in 1..BUFFER_SIZE |-> b]
    /\ g_dwBytesRead = 0
    /\ lastError \in StaleErrors
    /\ source \in SeqsUpTo(Bytes, MaxSrcLen)
    /\ srcPos = 0
    /\ dest = <<>>
    /\ xfer = <<>>
    /\ ioLog = <<>>
    /\ out = <<>>
    /\ report = <<>>
    /\ lpParameter = [i \in {READ_FIBER, WRITE_FIBER} |-> NullData]

\* ----------------------------------------------------------------- _tmain
\* ConvertThreadToFiber and the initialisation of fs[PRIMARY_FIBER].
MainConvertOk ==
    /\ mainPc = "convert"
    /\ g_lpFiber' = [g_lpFiber EXCEPT ![PRIMARY_FIBER] = PrimaryAddr]
    /\ fs' = [fs EXCEPT ![PRIMARY_FIBER].dwParameter = 0,
                        ![PRIMARY_FIBER].dwFiberResultCode = 0]
    /\ mainPc' = "createRead"
    /\ UNCHANGED <<lpParameter,
                   readPc, writePc, current, shared, lastError, files,
                   xfer, ioLog, out, report>>

MainConvertFail ==
    /\ mainPc = "convert"
    /\ lastError' \in CreateErrors
    /\ mainPc' = "error"
    /\ UNCHANGED <<lpParameter,
                   readPc, writePc, current, g_lpFiber, fs, shared, files,
                   xfer, ioLog, out, report>>

\* CreateFiber(0, ReadFiberFunc, &fs[READ_FIBER]); dwParameter = 0x12345678.
MainCreateReadOk ==
    /\ mainPc = "createRead"
    /\ g_lpFiber' = [g_lpFiber EXCEPT ![READ_FIBER] = ReadAddr]
    /\ lpParameter' = [lpParameter EXCEPT ![READ_FIBER] = AddrOf(READ_FIBER)]
    /\ fs' = [fs EXCEPT ![READ_FIBER].dwParameter = 305419896]
    /\ mainPc' = "createWrite"
    /\ UNCHANGED <<readPc, writePc, current, shared, lastError, files,
                   xfer, ioLog, out, report>>

MainCreateReadFail ==
    /\ mainPc = "createRead"
    /\ lastError' \in CreateErrors
    /\ mainPc' = "error"
    /\ UNCHANGED <<lpParameter,
                   readPc, writePc, current, g_lpFiber, fs, shared, files,
                   xfer, ioLog, out, report>>

\* CreateFiber(0, WriteFiberFunc, &fs[WRITE_FIBER]); dwParameter = 0x54545454.
MainCreateWriteOk ==
    /\ mainPc = "createWrite"
    /\ g_lpFiber' = [g_lpFiber EXCEPT ![WRITE_FIBER] = WriteAddr]
    /\ lpParameter' = [lpParameter EXCEPT ![WRITE_FIBER] = AddrOf(WRITE_FIBER)]
    /\ fs' = [fs EXCEPT ![WRITE_FIBER].dwParameter = 1414812756]
    /\ mainPc' = "launch"
    /\ UNCHANGED <<readPc, writePc, current, shared, lastError, files,
                   xfer, ioLog, out, report>>

\* Fault: the failed creation of the write fiber does not return.
MainCreateWriteFail_NoReturn ==
    /\ mainPc = "createWrite"
    /\ lastError' \in CreateErrors
    /\ mainPc' = "launch"
    /\ UNCHANGED <<lpParameter,
                   readPc, writePc, current, g_lpFiber, fs, shared, files,
                   xfer, ioLog, out, report>>

MainCreateWriteFail ==
    /\ mainPc = "createWrite"
    /\ lastError' \in CreateErrors
    /\ mainPc' = "error"
    /\ UNCHANGED <<lpParameter,
                   readPc, writePc, current, g_lpFiber, fs, shared, files,
                   xfer, ioLog, out, report>>

\* SwitchToFiber(g_lpFiber[READ_FIBER]): _tmain is suspended inside the call.
MainLaunch ==
    /\ mainPc = "launch"
    /\ current = PrimaryAddr
    /\ SwitchToFiber(g_lpFiber[READ_FIBER])
    /\ mainPc' = "resumed"
    /\ UNCHANGED <<lpParameter,
                   readPc, writePc, g_lpFiber, fs, shared, lastError, files,
                   ioLog, out, report>>

\* Scheduled again: print both result codes and byte counts, delete the
\* fibers, close the handles, free the memory, return RTN_OK.
MainReport ==
    /\ mainPc = "resumed"
    /\ current = PrimaryAddr
    /\ report' = [readResult |-> fs[READ_FIBER].dwFiberResultCode,
                  readBytes |-> fs[READ_FIBER].dwBytesProcessed,
                  writeResult |-> fs[WRITE_FIBER].dwFiberResultCode,
                  writeBytes |-> fs[WRITE_FIBER].dwBytesProcessed]
    /\ mainPc' = "done"
    /\ UNCHANGED <<lpParameter,
                   readPc, writePc, current, g_lpFiber, fs, shared,
                   lastError, files, xfer, ioLog, out>>

\* The value _tmain returns once it has returned.
ExitCode == IF mainPc = "done" THEN RTN_OK ELSE RTN_ERROR

\* ---------------------------------------------------------- ReadFiberFunc
\* Fault: the entry code forgets to zero the byte counter.
ReadEntry_NoReset ==
    /\ current = ReadAddr
    /\ readPc = "r_entry"
    /\ lpParameter[READ_FIBER] # NullData
    /\ DisplayFiberInfo(fs[READ_FIBER])
    /\ readPc' = "r_read"
    /\ UNCHANGED <<lpParameter,
                   mainPc, writePc, current, g_lpFiber, fs, shared, lastError,
                   files, xfer, ioLog, report>>

\* Fault: the reader presets its result code the way the writer does.
ReadEntry_SetsResult ==
    /\ current = ReadAddr
    /\ readPc = "r_entry"
    /\ lpParameter[READ_FIBER] # NullData
    /\ DisplayFiberInfo(fs[READ_FIBER])
    /\ fs' = [fs EXCEPT ![READ_FIBER].dwBytesProcessed = 0,
                        ![READ_FIBER].dwFiberResultCode = ERROR_SUCCESS]
    /\ readPc' = "r_read"
    /\ UNCHANGED <<lpParameter,
                   mainPc, writePc, current, g_lpFiber, shared, lastError,
                   files, xfer, ioLog, report>>

\* Entry with fds # NULL (_tmain passes &fs[READ_FIBER]): DisplayFiberInfo;
\* counter := 0.
ReadEntry ==
    /\ current = ReadAddr
    /\ readPc = "r_entry"
    /\ lpParameter[READ_FIBER] # NullData
    /\ DisplayFiberInfo(fs[READ_FIBER])
    /\ fs' = [fs EXCEPT ![READ_FIBER].dwBytesProcessed = 0]
    /\ readPc' = "r_read"
    /\ UNCHANGED <<lpParameter,
                   mainPc, writePc, current, g_lpFiber, shared, lastError,
                   files, xfer, ioLog, report>>

\* Fault: every byte of the read lands as a copy of the first one.
ReadInto_Shifted(buf, n) ==
    [i \in 1..BUFFER_SIZE |-> IF i <= n THEN source[srcPos + 1] ELSE buf[i]]

\* The bytes a successful ReadFile of n bytes leaves in the buffer.
ReadInto(buf, n) ==
    [i \in 1..BUFFER_SIZE |-> IF i <= n THEN source[srcPos + i] ELSE buf[i]]

\* Fault: the reader loops without handing the buffer over.
ReadSome_NoSwitch ==
    /\ current = ReadAddr
    /\ readPc = "r_read"
    /\ \E n \in 1..Min(BUFFER_SIZE, Len(source) - srcPos) :
        /\ g_lpBuffer' = ReadInto(g_lpBuffer, n)
        /\ g_dwBytesRead' = n
        /\ srcPos' = srcPos + n
        /\ ioLog' = Append(ioLog, [op |-> "read", ok |-> TRUE, n |-> n,
                                   err |-> ERROR_SUCCESS,
                                   data |-> SubSeq(source, srcPos + 1, srcPos + n)])
        /\ fs' = [fs EXCEPT ![READ_FIBER].dwBytesProcessed = DwordAdd(@, n)]
    /\ UNCHANGED <<current, xfer>>
    /\ UNCHANGED <<lpParameter,
                   mainPc, readPc, writePc, g_lpFiber, lastError, source,
                   dest, out, report>>

\* Fault: the reader names itself as the fiber to switch to.
ReadSome_SelfSwitch ==
    /\ current = ReadAddr
    /\ readPc = "r_read"
    /\ \E n \in 1..Min(BUFFER_SIZE, Len(source) - srcPos) :
        /\ g_lpBuffer' = ReadInto(g_lpBuffer, n)
        /\ g_dwBytesRead' = n
        /\ srcPos' = srcPos + n
        /\ ioLog' = Append(ioLog, [op |-> "read", ok |-> TRUE, n |-> n,
                                   err |-> ERROR_SUCCESS,
                                   data |-> SubSeq(source, srcPos + 1, srcPos + n)])
        /\ fs' = [fs EXCEPT ![READ_FIBER].dwBytesProcessed = DwordAdd(@, n)]
    /\ SwitchToFiber(g_lpFiber[READ_FIBER])
    /\ UNCHANGED <<lpParameter,
                   mainPc, readPc, writePc, g_lpFiber, lastError, source,
                   dest, out, report>>

\* Fault: the reader hands a filled buffer to the primary fiber.
ReadSome_ToPrimary ==
    /\ current = ReadAddr
    /\ readPc = "r_read"
    /\ \E n \in 1..Min(BUFFER_SIZE, Len(source) - srcPos) :
        /\ g_lpBuffer' = ReadInto(g_lpBuffer, n)
        /\ g_dwBytesRead' = n
        /\ srcPos' = srcPos + n
        /\ ioLog' = Append(ioLog, [op |-> "read", ok |-> TRUE, n |-> n,
                                   err |-> ERROR_SUCCESS,
                                   data |-> SubSeq(source, srcPos + 1, srcPos + n)])
        /\ fs' = [fs EXCEPT ![READ_FIBER].dwBytesProcessed = DwordAdd(@, n)]
    /\ SwitchToFiber(g_lpFiber[PRIMARY_FIBER])
    /\ UNCHANGED <<lpParameter,
                   mainPc, readPc, writePc, g_lpFiber, lastError, source,
                   dest, out, report>>

\* ReadFile succeeded with n > 0 bytes: count them and switch to the writer.
ReadSome ==
    /\ current = ReadAddr
    /\ readPc = "r_read"
    /\ \E n \in 1..Min(BUFFER_SIZE, Len(source) - srcPos) :
        /\ g_lpBuffer' = ReadInto(g_lpBuffer, n)
        /\ g_dwBytesRead' = n
        /\ srcPos' = srcPos + n
        /\ ioLog' = Append(ioLog, [op |-> "read", ok |-> TRUE, n |-> n,
                                   err |-> ERROR_SUCCESS,
                                   data |-> SubSeq(source, srcPos + 1, srcPos + n)])
        /\ fs' = [fs EXCEPT ![READ_FIBER].dwBytesProcessed = DwordAdd(@, n)]
    /\ SwitchToFiber(g_lpFiber[WRITE_FIBER])
    /\ UNCHANGED <<lpParameter,
                   mainPc, readPc, writePc, g_lpFiber, lastError, source,
                   dest, out, report>>

\* ReadFile succeeded with 0 bytes (end of file): break.  The successful
\* call leaves the thread's last-error value as it was.
ReadEof ==
    /\ current = ReadAddr
    /\ readPc = "r_read"
    /\ srcPos = Len(source)
    /\ g_dwBytesRead' = 0
    /\ ioLog' = Append(ioLog, [op |-> "read", ok |-> TRUE, n |-> 0,
                               err |-> ERROR_SUCCESS, data |-> <<>>])
    /\ readPc' = "r_break"
    /\ UNCHANGED <<lpParameter,
                   mainPc, writePc, current, g_lpFiber, fs, g_lpBuffer,
                   lastError, files, xfer, out, report>>

\* ReadFile failed: break.  The byte count is zeroed, the error code is set.
ReadFail ==
    /\ current = ReadAddr
    /\ readPc = "r_read"
    /\ lastError' \in ReadErrors
    /\ g_dwBytesRead' = 0
    /\ ioLog' = Append(ioLog, [op |-> "read", ok |-> FALSE, n |-> 0,
                               err |-> lastError', data |-> <<>>])
    /\ readPc' = "r_break"
    /\ UNCHANGED <<lpParameter,
                   mainPc, writePc, current, g_lpFiber, fs, g_lpBuffer,
                   files, xfer, out, report>>

\* Fault: the reader returns without switching to the primary fiber.
ReadTerminal_NoSwitch ==
    /\ current = ReadAddr
    /\ readPc = "r_break"
    /\ fs' = [fs EXCEPT ![READ_FIBER].dwFiberResultCode = lastError]
    /\ UNCHANGED <<current, xfer>>
    /\ readPc' = "r_term"
    /\ UNCHANGED <<lpParameter,
                   mainPc, writePc, g_lpFiber, shared, lastError, files,
                   ioLog, out, report>>

\* Fault: the reader ends by switching to the write fiber.
ReadTerminal_ToWriter ==
    /\ current = ReadAddr
    /\ readPc = "r_break"
    /\ fs' = [fs EXCEPT ![READ_FIBER].dwFiberResultCode = lastError]
    /\ SwitchToFiber(g_lpFiber[WRITE_FIBER])
    /\ readPc' = "r_term"
    /\ UNCHANGED <<lpParameter,
                   mainPc, writePc, g_lpFiber, shared, lastError, files,
                   ioLog, out, report>>

\* After the loop: result code := GetLastError(); switch to the primary fiber.
ReadTerminal ==
    /\ current = ReadAddr
    /\ readPc = "r_break"
    /\ fs' = [fs EXCEPT ![READ_FIBER].dwFiberResultCode = lastError]
    /\ SwitchToFiber(g_lpFiber[PRIMARY_FIBER])
    /\ readPc' = "r_term"
    /\ UNCHANGED <<lpParameter,
                   mainPc, writePc, g_lpFiber, shared, lastError, files,
                   ioLog, out, report>>

\* --------------------------------------------------------- WriteFiberFunc
\* Fault: the writer does not reset its byte counter.
WriteEntry_NoReset ==
    /\ current = WriteAddr
    /\ writePc = "w_entry"
    /\ lpParameter[WRITE_FIBER] # NullData
    /\ DisplayFiberInfo(fs[WRITE_FIBER])
    /\ fs' = [fs EXCEPT ![WRITE_FIBER].dwFiberResultCode = ERROR_SUCCESS]
    /\ writePc' = "w_write"
    /\ UNCHANGED <<lpParameter,
                   mainPc, readPc, current, g_lpFiber, shared, lastError,
                   files, xfer, ioLog, report>>

\* Entry with fds # NULL (_tmain passes &fs[WRITE_FIBER]): DisplayFiberInfo;
\* counter := 0; result code := ERROR_SUCCESS.
WriteEntry ==
    /\ current = WriteAddr
    /\ writePc = "w_entry"
    /\ lpParameter[WRITE_FIBER] # NullData
    /\ DisplayFiberInfo(fs[WRITE_FIBER])
    /\ fs' = [fs EXCEPT ![WRITE_FIBER].dwBytesProcessed = 0,
                        ![WRITE_FIBER].dwFiberResultCode = ERROR_SUCCESS]
    /\ writePc' = "w_write"
    /\ UNCHANGED <<lpParameter,
                   mainPc, readPc, current, g_lpFiber, shared, lastError,
                   files, xfer, ioLog, report>>

\* Fault: the writer counts the bytes requested instead of the bytes written.
WriteSome_CountsRequested ==
    /\ current = WriteAddr
    /\ writePc = "w_write"
    /\ \E w \in 0..g_dwBytesRead :
        /\ dest' = dest \o SubSeq(g_lpBuffer, 1, w)
        /\ ioLog' = Append(ioLog, [op |-> "write", ok |-> TRUE, n |-> w,
                                   err |-> ERROR_SUCCESS,
                                   data |-> SubSeq(g_lpBuffer, 1, g_dwBytesRead)])
        /\ fs' = [fs EXCEPT ![WRITE_FIBER].dwBytesProcessed =
                                DwordAdd(@, g_dwBytesRead)]
    /\ SwitchToFiber(g_lpFiber[READ_FIBER])
    /\ UNCHANGED <<lpParameter,
                   mainPc, readPc, writePc, g_lpFiber, shared, lastError,
                   source, srcPos, out, report>>

\* WriteFile succeeded and reported w bytes written (w may be short of the
\* g_dwBytesRead requested): count w and switch back to the reader.
WriteSome ==
    /\ current = WriteAddr
    /\ writePc = "w_write"
    /\ \E w \in 0..g_dwBytesRead :
        /\ dest' = dest \o SubSeq(g_lpBuffer, 1, w)
        /\ ioLog' = Append(ioLog, [op |-> "write", ok |-> TRUE, n |-> w,
                                   err |-> ERROR_SUCCESS,
                                   data |-> SubSeq(g_lpBuffer, 1, g_dwBytesRead)])
        /\ fs' = [fs EXCEPT ![WRITE_FIBER].dwBytesProcessed = DwordAdd(@, w)]
    /\ SwitchToFiber(g_lpFiber[READ_FIBER])
    /\ UNCHANGED <<lpParameter,
                   mainPc, readPc, writePc, g_lpFiber, shared, lastError,
                   source, srcPos, out, report>>

\* Fault: a failed write leaves the loop running and resumes the reader.
WriteFail_BackToReader ==
    /\ current = WriteAddr
    /\ writePc = "w_write"
    /\ lastError' \in WriteErrors
    /\ ioLog' = Append(ioLog, [op |-> "write", ok |-> FALSE, n |-> 0,
                               err |-> lastError',
                               data |-> SubSeq(g_lpBuffer, 1, g_dwBytesRead)])
    /\ SwitchToFiber(g_lpFiber[READ_FIBER])
    /\ UNCHANGED <<lpParameter,
                   mainPc, readPc, writePc, g_lpFiber, fs, shared, files,
                   out, report>>

\* Fault: the bytes of a failed write are added to the counter.
WriteFail_CountsBytes ==
    /\ current = WriteAddr
    /\ writePc = "w_write"
    /\ lastError' \in WriteErrors
    /\ ioLog' = Append(ioLog, [op |-> "write", ok |-> FALSE, n |-> 0,
                               err |-> lastError',
                               data |-> SubSeq(g_lpBuffer, 1, g_dwBytesRead)])
    /\ fs' = [fs EXCEPT ![WRITE_FIBER].dwBytesProcessed =
                            DwordAdd(@, g_dwBytesRead)]
    /\ writePc' = "w_break"
    /\ UNCHANGED <<lpParameter,
                   mainPc, readPc, current, g_lpFiber, shared, files,
                   xfer, out, report>>

\* WriteFile failed: break.  Nothing is counted, the error code is set.
WriteFail ==
    /\ current = WriteAddr
    /\ writePc = "w_write"
    /\ lastError' \in WriteErrors
    /\ ioLog' = Append(ioLog, [op |-> "write", ok |-> FALSE, n |-> 0,
                               err |-> lastError',
                               data |-> SubSeq(g_lpBuffer, 1, g_dwBytesRead)])
    /\ writePc' = "w_break"
    /\ UNCHANGED <<lpParameter,
                   mainPc, readPc, current, g_lpFiber, fs, shared, files,
                   xfer, out, report>>

\* After the loop: result code := GetLastError(); switch to the primary fiber.
WriteTerminal ==
    /\ current = WriteAddr
    /\ writePc = "w_break"
    /\ fs' = [fs EXCEPT ![WRITE_FIBER].dwFiberResultCode = lastError]
    /\ SwitchToFiber(g_lpFiber[PRIMARY_FIBER])
    /\ writePc' = "w_term"
    /\ UNCHANGED <<lpParameter,
                   mainPc, readPc, g_lpFiber, shared, lastError, files,
                   ioLog, out, report>>

\* ------------------------------------------- fiber functions given NULL
\* ReadFiberFunc with fds = NULL: print a message and return.  Returning
\* from a fiber function makes the thread exit.
ReadNullExit ==
    /\ current = ReadAddr
    /\ readPc = "r_entry"
    /\ lpParameter[READ_FIBER] = NullData
    /\ readPc' = "r_exit"
    /\ current' = ThreadExited
    /\ UNCHANGED <<lpParameter, mainPc, writePc, g_lpFiber, fs, shared,
                   lastError, files, xfer, ioLog, out, report>>

\* Fault: the NULL branch of the writer switches to the primary fiber.
WriteNullExit_ToPrimary ==
    /\ current = WriteAddr
    /\ writePc = "w_entry"
    /\ lpParameter[WRITE_FIBER] = NullData
    /\ writePc' = "w_exit"
    /\ SwitchToFiber(g_lpFiber[PRIMARY_FIBER])
    /\ UNCHANGED <<lpParameter, mainPc, readPc, g_lpFiber, fs, shared,
                   lastError, files, ioLog, out, report>>

\* WriteFiberFunc with fds = NULL: print a message and return.
WriteNullExit ==
    /\ current = WriteAddr
    /\ writePc = "w_entry"
    /\ lpParameter[WRITE_FIBER] = NullData
    /\ writePc' = "w_exit"
    /\ current' = ThreadExited
    /\ UNCHANGED <<lpParameter, mainPc, readPc, g_lpFiber, fs, shared,
                   lastError, files, xfer, ioLog, out, report>>

\* ------------------------------------------------------------------- Next
Next ==
    \/ MainConvertOk
    \/ MainConvertFail
    \/ MainCreateReadOk
    \/ MainCreateReadFail
    \/ MainCreateWriteOk
    \/ MainCreateWriteFail
    \/ MainLaunch
    \/ MainReport
    \/ ReadEntry
    \/ ReadSome
    \/ ReadEof
    \/ ReadFail
    \/ ReadTerminal
    \/ WriteEntry
    \/ WriteSome
    \/ WriteFail
    \/ WriteTerminal

Spec == Init /\ [][Next]_vars

\* One thread runs the fibers: whichever fiber is current takes its step.
FairSpec == Spec /\ WF_vars(Next)

\* The two fiber functions taken on their own: the state after line 148 of
\* a caller that created each fiber with lpParameter either NULL or the
\* address of its FIBERDATASTRUCT (_tmain itself always passes the address).
NullInit ==
    /\ mainPc = "launch"
    /\ readPc = "r_entry"
    /\ writePc = "w_entry"
    /\ current = PrimaryAddr
    /\ g_lpFiber = (PRIMARY_FIBER :> PrimaryAddr) @@ (READ_FIBER :> ReadAddr)
                      @@ (WRITE_FIBER :> WriteAddr)
    /\ \E rr, rb, wr, wb \in HeapGarbage :
          fs = (PRIMARY_FIBER :> [dwParameter |-> 0, dwFiberResultCode |-> 0,
                                  dwBytesProcessed |-> 0])
               @@ (READ_FIBER :> [dwParameter |-> 305419896,
                                  dwFiberResultCode |-> rr,
                                  dwBytesProcessed |-> rb])
               @@ (WRITE_FIBER :> [dwParameter |-> 1414812756,
                                   dwFiberResultCode |-> wr,
                                   dwBytesProcessed |-> wb])
    /\ \E b \in Bytes : g_lpBuffer = [i \in 1..BUFFER_SIZE |-> b]
    /\ g_dwBytesRead = 0
    /\ lastError \in StaleErrors
    /\ source \in SeqsUpTo(Bytes, MaxSrcLen)
    /\ srcPos = 0
    /\ dest = <<>>
    /\ xfer = <<>>
    /\ ioLog = <<>>
    /\ out = <<>>
    /\ report = <<>>
    /\ \E pr \in {NullData, AddrOf(READ_FIBER)},
          pw \in {NullData, AddrOf(WRITE_FIBER)} :
          lpParameter = (READ_FIBER :> pr) @@ (WRITE_FIBER :> pw)

NullNext ==
    \/ MainLaunch
    \/ MainReport
    \/ ReadEntry
    \/ ReadNullExit
    \/ ReadSome
    \/ ReadEof
    \/ ReadFail
    \/ ReadTerminal
    \/ WriteEntry
    \/ WriteNullExit
    \/ WriteSome
    \/ WriteFail
    \/ WriteTerminal

NullSpec == NullInit /\ [][NullNext]_vars

TypeOK ==
    /\ current \in {PrimaryAddr, ReadAddr, WriteAddr}
    /\ g_dwBytesRead \in 0..BUFFER_SIZE
    /\ srcPos \in 0..Len(source)
    /\ Len(g_lpBuffer) = BUFFER_SIZE

\* ------------------------------------------------- history-derived notions
Last(q) == q[Len(q)]

\* _tmain has switched into the pipeline.
Launched == Len(xfer) > 0

\* _tmain has been scheduled again and has printed both results.
Reported == mainPc = "done"

IsRead(e) == e.op = "read"
IsWrite(e) == e.op = "write"

\* A ReadFile call returned FALSE / a WriteFile call returned FALSE.
ReadFailed == \E i \in 1..Len(ioLog) : IsRead(ioLog[i]) /\ ~ioLog[i].ok
WriteFailed == \E i \in 1..Len(ioLog) : IsWrite(ioLog[i]) /\ ~ioLog[i].ok

\* A write that transferred every byte it was asked to write.
FullWrite(e) == IsWrite(e) /\ e.ok /\ e.n = Len(e.data)

\* No write failed, partway or fully.
AllWritesFull == \A i \in 1..Len(ioLog) : IsWrite(ioLog[i]) => FullWrite(ioLog[i])

\* The reader stopped on a zero-byte read.
StoppedOnEof ==
    /\ ioLog # <<>>
    /\ IsRead(Last(ioLog)) /\ Last(ioLog).ok /\ Last(ioLog).n = 0

RECURSIVE SumBytes(_, _)
\* Sum of the byte counts of the calls of ioLog[1..k] that satisfy kind.
SumBytes(k, kind) ==
    IF k = 0 THEN 0
    ELSE SumBytes(k - 1, kind)
         + (IF ioLog[k].op = kind /\ ioLog[k].ok THEN ioLog[k].n ELSE 0)

\* Number of calls of the given kind in ioLog.
Count(kind) == Cardinality({i \in 1..Len(ioLog) : ioLog[i].op = kind})

\* ---------------------------------------------------------------- claims

\* C1: round trip.  When the run has ended with no read failure and no write
\* failure, partway or fully (the reader stopped on a zero-byte read), the
\* bytes written to the destination, in order, are exactly the source bytes.
C1_RoundTrip ==
    (Reported /\ ~ReadFailed /\ AllWritesFull) => dest = source

\* A finished clean copy of a source longer than one buffer whose bytes differ.
C1_Witness ==
    /\ Reported /\ ~ReadFailed /\ AllWritesFull /\ StoppedOnEof
    /\ Len(source) > BUFFER_SIZE
    /\ source[1] # source[2]
    /\ dest = source

\* C2: on every successful run (no read failed, no write failed partway or
\* fully) the byte total reported for the reader equals the byte total
\* reported for the writer, for every source length.
C2_TotalsEqual ==
    (Reported /\ ~ReadFailed /\ AllWritesFull)
        => report.readBytes = report.writeBytes

\* C3: buffer discipline.  When the writer is about to issue a write, the
\* last I/O call was a successful non-empty read whose bytes and count are
\* what the buffer and g_dwBytesRead hold (so they were not written before);
\* when the reader is about to issue a read, either nothing was produced yet
\* or the last I/O call was a write that succeeded.
C3_BufferDiscipline ==
    /\ (current = WriteAddr /\ writePc = "w_write") =>
          /\ ioLog # <<>>
          /\ IsRead(Last(ioLog)) /\ Last(ioLog).ok /\ Last(ioLog).n > 0
          /\ g_dwBytesRead = Last(ioLog).n
          /\ SubSeq(g_lpBuffer, 1, g_dwBytesRead) = Last(ioLog).data
    /\ (current = ReadAddr /\ readPc = "r_read") =>
          \/ ioLog = <<>>
          \/ IsWrite(Last(ioLog)) /\ Last(ioLog).ok

\* The writer about to write the second buffer of the run, a full one.
C3_Witness ==
    /\ current = WriteAddr /\ writePc = "w_write"
    /\ Len(ioLog) = 3 /\ Last(ioLog).n = BUFFER_SIZE

\* The shape of the hand-off history: primary to reader first, then reader
\* and writer in turn, and a switch to the primary only as the last one.
HandoffShape ==
    \A i \in 1..Len(xfer) :
        /\ (i = 1) <=> (xfer[i][1] = PrimaryAddr)
        /\ i = 1 => xfer[i][2] = ReadAddr
        /\ xfer[i][1] = ReadAddr => xfer[i][2] \in {WriteAddr, PrimaryAddr}
        /\ xfer[i][1] = WriteAddr => xfer[i][2] \in {ReadAddr, PrimaryAddr}
        /\ i > 1 => xfer[i][1] = xfer[i - 1][2]
        /\ xfer[i][2] = PrimaryAddr => i = Len(xfer)

\* The primary fiber has been resumed by a worker.
PrimaryResumed == Launched /\ current = PrimaryAddr

\* C4: hand-off ordering.  The switches are primary to reader first, then
\* strictly alternating reader to writer and writer to reader, ending with
\* exactly one switch to the primary made by a worker; once the primary has
\* been resumed no worker executes another step.
C4_HandoffOrder ==
    /\ [](HandoffShape /\ (Reported => Last(xfer)[2] = PrimaryAddr))
    /\ [][PrimaryResumed =>
            /\ UNCHANGED <<readPc, writePc, fs, shared, files, xfer, ioLog, out>>
            /\ PrimaryResumed']_vars

\* The run has ended after at least two full reader/writer round trips.
C4_Witness ==
    /\ Reported
    /\ Len(xfer) >= 6
    /\ Last(xfer)[2] = PrimaryAddr

\* C5: termination.  Once _tmain has switched into the reader, control
\* eventually returns to the primary fiber, which reports the two results.
C5_Termination == Launched ~> Reported

\* The results have been reported after a run that used both workers.
C5_Witness ==
    /\ Reported
    /\ report # <<>>
    /\ Count("write") >= 1

\* A worker has made its terminal transition / stands inside its loop.
ReaderTerminal == readPc = "r_term"
WriterTerminal == writePc = "w_term"

\* C6 as stated: when the primary fiber resumes and reads the control
\* blocks, the reader and the writer have both made their terminal
\* transition.
C6_BothTerminal ==
    PrimaryResumed => (ReaderTerminal /\ WriterTerminal)

\* C6 (amended): when the primary fiber resumes, exactly one worker has made
\* its terminal transition; the other is suspended at its hand-off inside
\* its loop, or (the writer) was never started.
C6_OneTerminal ==
    PrimaryResumed =>
        \/ ReaderTerminal /\ writePc \in {"w_entry", "w_write"}
        \/ WriterTerminal /\ readPc = "r_read"

\* The primary fiber reports after the reader ended a run in which the
\* writer took part and is still suspended in its loop.
C6_Witness ==
    /\ Reported
    /\ ReaderTerminal
    /\ writePc = "w_write"
    /\ Count("write") >= 1

\* The value stored as result code is an end-of-stream value: it differs
\* from the success value and from every read error code.
IsEndOfStream(code) == code # ERROR_SUCCESS /\ code \notin ReadErrors

\* C7: empty source.  With a source of 0 bytes whose read does not fail,
\* the run ends after one reader cycle; the reader's result code is the
\* end-of-stream value, its byte count is 0, and the writer never ran.
C7_EmptySource ==
    (Reported /\ source = <<>> /\ ~ReadFailed) =>
        /\ IsEndOfStream(report.readResult)
        /\ report.readBytes = 0
        /\ writePc = "w_entry"
        /\ Count("write") = 0
        /\ Count("read") = 1
        /\ xfer = <<<<PrimaryAddr, ReadAddr>>, <<ReadAddr, PrimaryAddr>>>>

\* Every successful read so far returned a full buffer or nothing.
AllReadsFull ==
    \A i \in 1..Len(ioLog) :
        (IsRead(ioLog[i]) /\ ioLog[i].ok) => ioLog[i].n \in {0, BUFFER_SIZE}

\* The run read k full buffers, each handed to one write, then one empty read.
KCycles(k) ==
    /\ Len(ioLog) = 2 * k + 1
    /\ \A i \in 1..k :
        /\ IsRead(ioLog[2 * i - 1]) /\ ioLog[2 * i - 1].n = BUFFER_SIZE
        /\ IsWrite(ioLog[2 * i])
    /\ StoppedOnEof
    /\ Len(xfer) = 2 * k + 2

\* The precondition of C8: the source is k buffers long, no call failed and
\* every read returned a full buffer while data remained.
C8_Pre(k) ==
    /\ Reported
    /\ Len(source) = k * BUFFER_SIZE
    /\ ~ReadFailed /\ ~WriteFailed /\ AllReadsFull

FailsOnCycle(m) ==
    /\ Count("write") >= m
    /\ \E j \in 1..Len(ioLog) :
        /\ IsWrite(ioLog[j]) /\ ~ioLog[j].ok
        /\ Cardinality({i \in 1..j : IsWrite(ioLog[i])}) = m
        /\ \A i \in 1..(j - 1) : IsWrite(ioLog[i]) => FullWrite(ioLog[i])

\* What C9 says of the end of such a run, apart from the byte count.
WriterHalted(m) ==
    /\ report.writeResult = Last(ioLog).err
    /\ report.writeResult \in WriteErrors
    /\ Last(xfer) = <<WriteAddr, PrimaryAddr>>
    /\ IsWrite(Last(ioLog)) /\ ~Last(ioLog).ok
    /\ Count("read") = m /\ Count("write") = m
    /\ readPc = "r_read"

JustFailed(kind) ==
    /\ ioLog # <<>>
    /\ Last(ioLog).op = kind
    /\ ~Last(ioLog).ok

\* No I/O call follows a failed one.
NoCallAfterFailure ==
    \A i \in 1..Len(ioLog) : ~ioLog[i].ok => i = Len(ioLog)

\* C10: no retry and direct halt.  After a failed read the reader issues no
\* further read, after a failed write the writer issues no further write;
\* the next hand-off after the failure is made by the failing fiber, goes
\* to the primary fiber, and by then the failing fiber's own result code
\* holds the error of the failed call.
C10_NoRetryDirectHalt ==
    /\ []NoCallAfterFailure
    /\ [][(JustFailed("read") /\ xfer' # xfer) =>
            /\ Last(xfer') = <<ReadAddr, PrimaryAddr>>
            /\ fs'[READ_FIBER].dwFiberResultCode = Last(ioLog).err
            /\ fs'[WRITE_FIBER] = fs[WRITE_FIBER]]_vars
    /\ [][(JustFailed("write") /\ xfer' # xfer) =>
            /\ Last(xfer') = <<WriteAddr, PrimaryAddr>>
            /\ fs'[WRITE_FIBER].dwFiberResultCode = Last(ioLog).err
            /\ fs'[READ_FIBER] = fs[READ_FIBER]]_vars

\* A reader that failed on its second read has handed off to the primary.
C10_Witness ==
    /\ JustFailed("read")
    /\ Count("read") = 2
    /\ ReaderTerminal
    /\ fs[READ_FIBER].dwFiberResultCode \in ReadErrors

\* C11: the value the reader stores when it stops on a zero-byte read is an
\* end-of-stream value: it differs from the success value and from every
\* value stored after a failed read.
C11_EofDistinct ==
    (ReaderTerminal /\ StoppedOnEof) =>
        /\ fs[READ_FIBER].dwFiberResultCode # ERROR_SUCCESS
        /\ fs[READ_FIBER].dwFiberResultCode \notin ReadErrors

\* The result code and the byte count of fs[i] are zero.
Zeroed(i) ==
    /\ fs[i].dwFiberResultCode = 0
    /\ fs[i].dwBytesProcessed = 0

\* C12: both worker control blocks are zeroed when the pipeline is launched
\* and stay so until the owning fiber sets them, so a worker that never ran
\* is reported with result code 0 and 0 bytes.
C12_FreshlyZeroed ==
    /\ (Launched /\ readPc = "r_entry") => Zeroed(READ_FIBER)
    /\ (Launched /\ writePc = "w_entry") => Zeroed(WRITE_FIBER)
    /\ (Reported /\ writePc = "w_entry") =>
          (report.writeResult = 0 /\ report.writeBytes = 0)

\* _tmain has returned RTN_ERROR out of the fiber set-up.
CreationFailed == mainPc = "error"

\* Every entry of g_lpFiber holds a fiber.
AllCreated == \A i \in 0..(FIBER_COUNT - 1) : g_lpFiber[i] # NullFiber

\* No worker has executed a step and no I/O was issued.
NothingRan ==
    /\ ~Launched
    /\ current = PrimaryAddr
    /\ readPc = "r_entry" /\ writePc = "w_entry"
    /\ ioLog = <<>> /\ out = <<>>
    /\ srcPos = 0 /\ dest = <<>>

\* C13: if ConvertThreadToFiber or a CreateFiber fails, _tmain returns an
\* error without ever switching into a worker: as long as a fiber is
\* missing no worker step and no read or write has happened, and after the
\* error return nothing happens any more.
C13_CreationFailure ==
    /\ [](CreationFailed =>
            (~AllCreated /\ lastError \in CreateErrors /\ ExitCode = RTN_ERROR))
    /\ [](~AllCreated => NothingRan)
    /\ [][CreationFailed => UNCHANGED vars]_vars

\* The creation of the write fiber failed after the read fiber was created.
C13_Witness ==
    /\ CreationFailed
    /\ g_lpFiber[READ_FIBER] = ReadAddr
    /\ g_lpFiber[WRITE_FIBER] = NullFiber

\* A write that returned TRUE but transferred fewer bytes than requested.
ShortWrite(e) == IsWrite(e) /\ e.ok /\ e.n < Len(e.data)

\* C14: a write that transfers fewer bytes than requested is terminal: the
\* hand-off the writer makes after it goes to the primary fiber, with a
\* failure in the writer's result code.
C14_PartialWriteTerminal ==
    (ioLog # <<>> /\ ShortWrite(Last(ioLog)) /\ Last(xfer)[1] = WriteAddr) =>
        /\ Last(xfer)[2] = PrimaryAddr
        /\ fs[WRITE_FIBER].dwFiberResultCode # ERROR_SUCCESS

\* The last I/O call is a successful call of the given kind.
JustDid(log, kind) ==
    /\ log # <<>>
    /\ Last(log).op = kind
    /\ Last(log).ok

\* C15: each worker's byte count is 0 when the worker first runs and is
\* from then on the sum of the bytes its successful calls returned (up to
\* the wrap of the 32-bit counter): it is never reset again, and it changes
\* only by a successful call of the worker, by exactly the bytes returned.
C15_Counters ==
    /\ [](readPc # "r_entry" =>
            fs[READ_FIBER].dwBytesProcessed
                = SumBytes(Len(ioLog), "read") % DWORD_MOD)
    /\ [](writePc # "w_entry" =>
            fs[WRITE_FIBER].dwBytesProcessed
                = SumBytes(Len(ioLog), "write") % DWORD_MOD)
    /\ [][(readPc # "r_entry" /\ fs'[READ_FIBER].dwBytesProcessed
                                    # fs[READ_FIBER].dwBytesProcessed) =>
            /\ Len(ioLog') = Len(ioLog) + 1
            /\ JustDid(ioLog', "read")
            /\ fs'[READ_FIBER].dwBytesProcessed
                 = (fs[READ_FIBER].dwBytesProcessed + Last(ioLog').n)
                     % DWORD_MOD]_vars
    /\ [][(writePc # "w_entry" /\ fs'[WRITE_FIBER].dwBytesProcessed
                                     # fs[WRITE_FIBER].dwBytesProcessed) =>
            /\ Len(ioLog') = Len(ioLog) + 1
            /\ JustDid(ioLog', "write")
            /\ fs'[WRITE_FIBER].dwBytesProcessed
                 = (fs[WRITE_FIBER].dwBytesProcessed + Last(ioLog').n)
                     % DWORD_MOD]_vars

\* The reader is resumed after the second write of a run that moved bytes.
C15_Witness ==
    /\ current = ReadAddr /\ readPc = "r_read"
    /\ Count("write") = 2
    /\ fs[WRITE_FIBER].dwBytesProcessed > 0
    /\ fs[READ_FIBER].dwBytesProcessed > 0

\* A fiber function has returned because its lpParameter was NULL.
NullExited == readPc = "r_exit" \/ writePc = "w_exit"

\* C16: a worker started with a NULL control block exits at once: it issues
\* no read or write, changes no control block, buffer or byte count and
\* makes no hand-off, so the primary fiber is never resumed and nothing is
\* reported.
C16_NullExit ==
    /\ [](lpParameter[READ_FIBER] = NullData =>
            (readPc \in {"r_entry", "r_exit"} /\ Count("read") = 0))
    /\ [](lpParameter[WRITE_FIBER] = NullData =>
            (writePc \in {"w_entry", "w_exit"} /\ Count("write") = 0))
    /\ [](NullExited =>
            (current = ThreadExited /\ mainPc = "resumed" /\ report = <<>>))
    /\ [][(~NullExited /\ NullExited') =>
            UNCHANGED <<fs, shared, files, xfer, ioLog, report>>]_vars
    /\ [][NullExited => UNCHANGED vars]_vars

\* The writer was given NULL and returned after the reader's first read.
C16_Witness ==
    /\ writePc = "w_exit"
    /\ Count("read") = 1
    /\ current = ThreadExited

\* Successful writes / successful non-empty reads so far.
OkWrites ==
    Cardinality({i \in 1..Len(ioLog) : IsWrite(ioLog[i]) /\ ioLog[i].ok})
NonEmptyReads ==
    Cardinality({i \in 1..Len(ioLog) :
                    IsRead(ioLog[i]) /\ ioLog[i].ok /\ ioLog[i].n > 0})

\* C17: whenever the reader is about to read again or has made its terminal
\* transition, every buffer it produced was handed to a write that
\* completed successfully.
C17_NoBufferInFlight ==
    /\ (readPc \in {"r_break", "r_term"}) => OkWrites = NonEmptyReads
    /\ (current = ReadAddr /\ readPc = "r_read") => OkWrites = NonEmptyReads

\* The reader has ended a run of two buffers.
C17_Witness ==
    /\ ReaderTerminal
    /\ NonEmptyReads = 2
    /\ OkWrites = 2

RECURSIVE LostBytes(_)
\* Bytes the successful writes of ioLog[1..k] were asked to write but did not.
LostBytes(k) ==
    IF k = 0 THEN 0
    ELSE LostBytes(k - 1)
         + (IF IsWrite(ioLog[k]) /\ ioLog[k].ok
            THEN Len(ioLog[k].data) - ioLog[k].n ELSE 0)

NonEmptyReadIdx ==
    {i \in 1..Len(ioLog) : IsRead(ioLog[i]) /\ ioLog[i].ok /\ ioLog[i].n > 0}

\* Bytes of the buffer most recently produced, while no write of it succeeded.
Pending ==
    IF NonEmptyReadIdx = {} THEN 0
    ELSE LET j == CHOOSE j \in NonEmptyReadIdx :
                     \A i \in NonEmptyReadIdx : i <= j
         IN  IF \E i \in (j + 1)..Len(ioLog) : IsWrite(ioLog[i]) /\ ioLog[i].ok
             THEN 0 ELSE ioLog[j].n

C19_ReaderResultUntouched ==
    /\ [](WriterTerminal => readPc = "r_read")
    /\ [][readPc' # "r_term" =>
            fs'[READ_FIBER].dwFiberResultCode
                = fs[READ_FIBER].dwFiberResultCode]_vars
    /\ []((Reported /\ WriterTerminal) =>
            /\ report.readResult = fs[READ_FIBER].dwFiberResultCode
            /\ IsWrite(Last(ioLog)) /\ ~Last(ioLog).ok
            /\ JustDid(SubSeq(ioLog, 1, Len(ioLog) - 1), "read")
            /\ ioLog[Len(ioLog) - 1].n = Len(Last(ioLog).data)
            /\ report.readBytes = SumBytes(Len(ioLog), "read") % DWORD_MOD)

\* A failed write ended the run and the reader is reported with the heap's
\* non-zero value as result code.
C19_Witness ==
    /\ Reported /\ WriterTerminal
    /\ report.readResult # 0
    /\ report.readBytes > 0

\* C20: DisplayFiberInfo names the executing fiber: the read fiber from the
\* read fiber, the write fiber from the write fiber, and an unknown fiber
\* only from a fiber that is neither.
C20_FiberIdentity ==
    \A i \in 1..Len(out) :
        /\ out[i].fiber = ReadAddr => out[i].line = "Read fiber entered"
        /\ out[i].fiber = WriteAddr => out[i].line = "Write fiber entered"
        /\ out[i].line = "Unknown fiber entered" =>
              out[i].fiber \notin {ReadAddr, WriteAddr}
====
